---- MODULE Spec2Model ----
(***************************************************************************)
(* A model of task_tracker.py: a command-line task list persisted as one   *)
(* JSON file.  Every invocation of the program is a separate process that  *)
(* loads the file, changes the list in memory and writes it back.          *)
(*                                                                         *)
(* Text (descriptions, index arguments) is a sequence of one-character     *)
(* strings, so that joining, stripping and integer parsing are computed.   *)
(***************************************************************************)
EXTENDS Integers, Sequences, FiniteSets, TLC

\* ----------------------------------------------------------------- bounds
\* Longest task list an add may produce.
MaxLen == 3
\* Longest JSON array found in the file before the first invocation.
MaxInit == 2

Procs == {1, 2}

\* ------------------------------------------------------------------- text
Digits == <<"0", "1", "2", "3", "4", "5", "6", "7", "8", "9">>

IsDigit(c) == \E k \in 1..10 : Digits[k] = c

DigitVal(c) == (CHOOSE k \in 1..10 : Digits[k] = c) - 1

IsSpace(c) == c = " "

RECURSIVE LStrip(_)
LStrip(s) == IF s # <<>> /\ IsSpace(Head(s)) THEN LStrip(Tail(s)) ELSE s

RECURSIVE RStrip(_)
RStrip(s) ==
    IF s # <<>> /\ IsSpace(s[Len(s)]) THEN RStrip(SubSeq(s, 1, Len(s) - 1)) ELSE s

\* str.strip()
Strip(s) == RStrip(LStrip(s))

RECURSIVE DigitsValue(_)
DigitsValue(s) ==
    IF s = <<>> THEN 0
    ELSE 10 * DigitsValue(SubSeq(s, 1, Len(s) - 1)) + DigitVal(s[Len(s)])

\* int(text): surrounding whitespace is ignored, one optional sign, then one
\* or more decimal digits; anything else raises ValueError (ok = FALSE).
ParseInt(s) ==
    LET t    == Strip(s)
        sgn  == t # <<>> /\ Head(t) \in {"+", "-"}
        body == IF sgn THEN Tail(t) ELSE t
    IN  IF body # <<>> /\ \A k \in 1..Len(body) : IsDigit(body[k])
        THEN [ok |-> TRUE,
              val |-> IF sgn /\ Head(t) = "-" THEN 0 - DigitsValue(body)
                      ELSE DigitsValue(body)]
        ELSE [ok |-> FALSE, val |-> 0]

\* " ".join(sys.argv[2:])
RECURSIVE Join(_)
Join(args) ==
    IF args = <<>> THEN <<>>
    ELSE IF Len(args) = 1 THEN args[1]
    ELSE args[1] \o <<" ">> \o Join(Tail(args))

\* sys.argv[1].lower(), on the command words the model uses.
Lower(w) ==
    CASE w = "ADD"  -> "add"
      [] w = "List" -> "list"
      [] OTHER      -> w

\* ------------------------------------------------------------- JSON values
\* An element of the stored array: a JSON object with some of the keys
\* "description" and "status", or a value that is no object (a number).
\* A key that is absent has the value <<>> / "" and is not in keys.
Obj(ks, d, s) == [type |-> "object", keys |-> ks, description |-> d, status |-> s]

Task(d, s) == Obj({"description", "status"}, d, s)

Number == [type |-> "number", keys |-> {}, description |-> <<>>, status |-> ""]

\* The file: absent, bytes that do not decode as text, text that is no JSON
\* (an empty or cut-off file too), a JSON value that is no array, or an array.
File(k, xs) == [kind |-> k, items |-> xs]

AbsentFile == File("absent", <<>>)

\* ------------------------------------------------- the result of one run
\* One line of standard output.
Line(m, n, i, t) == [msg |-> m, num |-> n, icon |-> i, text |-> t]

Say(m) == Line(m, 0, "", <<>>)

NoDescription == <<"No description">>

\* An invocation (one process): where it is, what it was given, what it
\* loaded, the list it holds in memory, what it printed, how it ended.
\*   pc      "idle" (not started), "loaded" (list loaded and changed in
\*           memory, save_tasks not yet called), "done" (process ended)
\*   loaded  the list load_tasks returned, before any change
\*   tasks   the list in memory (what save_tasks is given)
\*   read    whether the file was opened for reading
\*   raised  the uncaught exception that ended the process, or "none"
\*   wrote   the outcome of save_tasks' write, "none" when it never ran
\*   before  the file when the invocation started
\*   rel     how the load relates to the other process: "raced" (the other
\*           had loaded and not yet saved), "after" (the other's write was
\*           the file loaded), "solo"
NoInv ==
    [pc |-> "idle", argv |-> <<>>, action |-> "", index |-> 0, desc |-> <<>>,
     loaded |-> <<>>, tasks |-> <<>>, read |-> FALSE, raised |-> "none",
     out |-> <<>>, exit |-> 0, wrote |-> "none", before |-> AbsentFile,
     rel |-> "solo"]

\* The process ended normally having printed ls.
Done(r, ls) == [r EXCEPT !.pc = "done", !.out = r.out \o ls, !.exit = 0]

\* An uncaught exception: a traceback and exit status 1.
Raise(r, e, ls) ==
    [r EXCEPT !.pc = "done", !.out = r.out \o ls, !.raised = e, !.exit = 1]

\* sys.exit(1)
Fail(r, ls) == [r EXCEPT !.pc = "done", !.out = r.out \o ls, !.exit = 1]

\* ------------------------------------------------------- storage accessor
\* load_tasks raises: the file exists and its bytes do not decode
\* (UnicodeDecodeError is not a JSONDecodeError).
LoadRaises(f) == f.kind = "undecodable"

\* load_tasks' return value otherwise.
LoadTasks(f) == IF f.kind = "array" THEN f.items ELSE <<>>

\* A variant of save_tasks with the file opened with 'a' instead of 'w': the
\* new text follows the old, which is a JSON document only when there was
\* no file before.
SaveTasks_AppendMode(f, tasks, outcome) ==
    CASE outcome = "ok" ->
            IF f.kind = "absent" THEN File("array", tasks) ELSE File("malformed", <<>>)
      [] outcome = "denied"    -> f
      [] outcome = "truncated" -> File("malformed", <<>>)

\* save_tasks: the file after the write.  open(.., 'w') may fail and leave
\* the file as it is ("denied"); the write may fail after open truncated
\* the file ("truncated"); both are caught and reported.
SaveTasks(f, tasks, outcome) ==
    CASE outcome = "ok"        -> File("array", tasks)
      [] outcome = "denied"    -> f
      [] outcome = "truncated" -> File("malformed", <<>>)

WriteOutcomes == {"ok", "denied", "truncated"}

\* What save_tasks prints.
SaveReport(outcome) == IF outcome = "ok" THEN <<>> ELSE <<Say("save_error")>>

\* show_help
ShowHelp == <<Say("help")>>

\* --------------------------------------------------------- task operations
\* A variant of the append: tasks.insert(0, new_task).
AppendTask_Front(tasks, description) == <<Task(description, "pending")>> \o tasks

\* tasks.append(new_task)
AppendTask(tasks, description) == Append(tasks, Task(description, "pending"))

\* Variants of the status assignment: the assignment left out; and the list
\* rebuilt with every other task pending.
MarkComplete_Forgotten(tasks, i) == tasks

MarkComplete_ResetOthers(tasks, i) ==
    [j \in 1..Len(tasks) |->
        [tasks[j] EXCEPT !.status = IF j = i THEN "complete" ELSE "pending",
                         !.keys = @ \cup {"status"}]]

\* tasks[task_index]["status"] = "complete"   (i is 1-based here)
MarkComplete(tasks, i) ==
    [tasks EXCEPT ![i] = [@ EXCEPT !.status = "complete",
                                   !.keys = @ \cup {"status"}]]

\* A variant of the pop: tasks.pop(), which removes the last element.
RemoveAt_PopLast(tasks, i) == SubSeq(tasks, 1, Len(tasks) - 1)

\* tasks.pop(task_index): the list without its i-th element (i is 1-based)
RemoveAt(tasks, i) == SubSeq(tasks, 1, i - 1) \o SubSeq(tasks, i + 1, Len(tasks))

\* 0 <= task_index < len(tasks), on the 1-based number n = task_index + 1
InRange(n, tasks) == 0 <= n - 1 /\ n - 1 < Len(tasks)

\* tasks[i][key]: TypeError on a value that is no object, KeyError on an
\* object without the key, "none" when the subscript succeeds.
Subscript(t, key) ==
    IF t.type # "object" THEN "TypeError"
    ELSE IF key \notin t.keys THEN "KeyError"
    ELSE "none"

\* add_task, up to the call of save_tasks
AddTask(r0, f, description) ==
    LET r == [r0 EXCEPT !.action = "add", !.desc = description] IN
    IF description = <<>> THEN Done(r, <<Say("empty_task")>>)
    ELSE IF LoadRaises(f) THEN Raise([r EXCEPT !.read = TRUE], "UnicodeDecodeError", <<>>)
    ELSE [r EXCEPT !.pc = "loaded", !.read = TRUE, !.loaded = LoadTasks(f),
                   !.tasks = AppendTask(LoadTasks(f), description)]

\* The lines list_tasks prints for tasks[k..], and the exception that stops
\* it: task.get raises AttributeError on a value that is no object.
RECURSIVE ListLines(_, _)
ListLines(tasks, k) ==
    IF k > Len(tasks) THEN [lines |-> <<Say("list_footer")>>, raised |-> "none"]
    ELSE IF tasks[k].type # "object" THEN [lines |-> <<>>, raised |-> "AttributeError"]
    ELSE LET t    == tasks[k]
             icon == IF "status" \in t.keys /\ t.status = "complete"
                     THEN "[x]" ELSE "[ ]"
             d    == IF "description" \in t.keys THEN t.description
                     ELSE NoDescription
             rest == ListLines(tasks, k + 1)
         IN  [lines |-> <<Line("list_item", k, icon, d)>> \o rest.lines,
              raised |-> rest.raised]

\* list_tasks
ListTasks(r0, f) ==
    LET r == [r0 EXCEPT !.action = "list", !.read = TRUE] IN
    IF LoadRaises(f) THEN Raise(r, "UnicodeDecodeError", <<>>)
    ELSE LET tasks == LoadTasks(f)
             ls    == ListLines(tasks, 1)
             rl    == [r EXCEPT !.loaded = tasks, !.tasks = tasks]
         IN  IF tasks = <<>> THEN Done(rl, <<Say("no_tasks_found")>>)
             ELSE IF ls.raised # "none"
                  THEN Raise(rl, ls.raised, <<Say("list_header")>> \o ls.lines)
                  ELSE Done(rl, <<Say("list_header")>> \o ls.lines)

\* A variant of the report without the case of the empty list.
NotFoundReport_AlwaysRange(n, tasks) ==
    <<Line("not_found", n, "", <<>>), Line("valid_range", Len(tasks), "", <<>>)>>

\* _update_task's report of a task number that is out of range
NotFoundReport(n, tasks) ==
    <<Line("not_found", n, "", <<>>),
      IF tasks = <<>> THEN Say("you_have_no_tasks")
      ELSE Line("valid_range", Len(tasks), "", <<>>)>>

\* _update_task, up to the call of save_tasks
UpdateTask(r0, f, task_index_str, action) ==
    LET r == [r0 EXCEPT !.action = action]
        n == ParseInt(task_index_str)
    IN
    IF ~n.ok THEN Done(r, <<Line("invalid_number", 0, "", task_index_str)>>)
    ELSE IF LoadRaises(f)
         THEN Raise([r EXCEPT !.index = n.val, !.read = TRUE], "UnicodeDecodeError", <<>>)
    ELSE
    LET tasks == LoadTasks(f)
        rl    == [r EXCEPT !.index = n.val, !.read = TRUE,
                           !.loaded = tasks, !.tasks = tasks]
    IN
    IF InRange(n.val, tasks) THEN
        IF action = "complete" THEN
            IF Subscript(tasks[n.val], "status") # "none"
            THEN Raise(rl, Subscript(tasks[n.val], "status"), <<>>)
            ELSE IF tasks[n.val].status = "complete"
            THEN Done(rl, <<Line("already_complete", n.val, "", <<>>)>>)
            ELSE [rl EXCEPT !.pc = "loaded", !.tasks = MarkComplete(tasks, n.val)]
        ELSE IF action = "remove" THEN
            [rl EXCEPT !.pc = "loaded", !.tasks = RemoveAt(tasks, n.val)]
        ELSE Done(rl, <<>>)
    ELSE Done(rl, NotFoundReport(n.val, tasks))

\* The rest of add_task and _update_task: save_tasks has run with the given
\* outcome; the confirmation is printed whatever the outcome was.
Confirm(r, outcome) ==
    LET rs == [r EXCEPT !.wrote = outcome, !.out = r.out \o SaveReport(outcome)] IN
    IF r.action = "add" THEN
        Done(rs, <<Line("task_added", 0, "", r.desc)>>)
    ELSE IF r.action = "complete" THEN
        IF Subscript(r.tasks[r.index], "description") # "none"
        THEN Raise(rs, Subscript(r.tasks[r.index], "description"), <<>>)
        ELSE Done(rs, <<Line("marked_complete", r.index, "", r.tasks[r.index].description)>>)
    ELSE
        IF Subscript(r.loaded[r.index], "description") # "none"
        THEN Raise(rs, Subscript(r.loaded[r.index], "description"), <<>>)
        ELSE Done(rs, <<Line("removed", r.index, "", r.loaded[r.index].description)>>)

\* main: argv[1] is the script name, as sys.argv[0] is.
Main(argv, f) ==
    LET r       == [NoInv EXCEPT !.argv = argv, !.before = f]
        command == Lower(argv[2])
    IN
    IF Len(argv) < 2 THEN Fail(r, <<Say("no_command")>> \o ShowHelp)
    ELSE IF command = "list" THEN ListTasks(r, f)
    ELSE IF command = "add" THEN
        IF Len(argv) < 3 THEN Done([r EXCEPT !.action = "add"], <<Say("add_requires_description")>>)
        ELSE AddTask(r, f, Join(SubSeq(argv, 3, Len(argv))))
    ELSE IF command = "complete" THEN
        IF Len(argv) < 3 THEN Done([r EXCEPT !.action = "complete"], <<Say("complete_requires_number")>>)
        ELSE UpdateTask(r, f, argv[3], "complete")
    ELSE IF command = "remove" THEN
        IF Len(argv) < 3 THEN Done([r EXCEPT !.action = "remove"], <<Say("remove_requires_number")>>)
        ELSE UpdateTask(r, f, argv[3], "remove")
    ELSE IF command = "help" THEN Done([r EXCEPT !.action = "help"], ShowHelp)
    ELSE Fail(r, <<Line("unknown_command", 0, "", <<>>)>> \o ShowHelp)

\* ------------------------------------------------------------------ state
VARIABLES
    file,        \* the content of tasks.json
    inv,         \* inv[p]: the invocation process p is running or has ended
    lastWriter,  \* the process whose save_tasks changed the file last (0: none)
    prevDone     \* the task number the invocation before this one marked complete (0: none)

vars == <<file, inv, lastWriter, prevDone>>

Other(p) == CHOOSE q \in Procs : q # p

\* ----------------------------------------------------------------- inputs
Script == "task_tracker.py"

A == <<"a">>

\* What the file may hold before the first invocation: well-formed tasks
\* and elements a hand-edited file may hold.
InitElems ==
    {Task(A, "pending"), Task(A, "complete"), Number,
     Obj({"description"}, A, ""), Obj({"status"}, <<>>, "pending")}

InitFiles ==
    {File(k, <<>>) : k \in {"absent", "undecodable", "malformed", "nonarray"}}
    \cup {File("array", xs) : xs \in UNION {[1..n -> InitElems] : n \in 0..MaxInit}}

\* The arguments after "add": none, "", "a", "" "" and "a" "b".
AddArgs == {<<>>, << <<>> >>, <<A>>, << <<>>, <<>> >>, <<A, <<"b">>>>}

\* The arguments after "complete" and "remove": none, the numbers 0 to
\* MaxLen + 1, -1, a padded number, and two that are no integers.
IndexArgs ==
    {<<>>, << <<"-", "1">> >>, << <<"a", "b", "c">> >>, << <<"1", ".", "5">> >>,
     << <<" ", "1", " ">> >>}
    \cup {<< <<Digits[k + 1]>> >> : k \in 0..(MaxLen + 1)}

\* The command lines of two terminals used at once: a smaller set.
ConcAddArgs == {<<A>>, <<A, <<"b">>>>}

ConcIndexArgs == {<< <<"1">> >>, << <<"2">> >>}

\* ---------------------------------------------------------------- actions
\* Process p may start with command line argv: it is not running, and an
\* add keeps the list within the model's bound.
CanStart(p, argv) ==
    LET r == Main(argv, file) IN
    /\ inv[p].pc = "idle"
    /\ r.action = "add" /\ r.pc = "loaded" => Len(r.tasks) <= MaxLen

\* inv after process p ran main(argv) until it ended or until it is about
\* to call save_tasks.
Started(p, argv) ==
    LET r == Main(argv, file)
        q == Other(p)
    IN  [inv EXCEPT
           ![p] = [r EXCEPT !.rel =
                     IF inv[q].pc = "loaded" THEN "raced"
                     ELSE IF inv[q].pc = "done" /\ inv[q].wrote = "ok"
                          THEN "after" ELSE "solo"],
           ![q] = [@ EXCEPT !.rel =
                     IF inv[q].pc = "loaded" /\ r.pc = "loaded"
                     THEN "raced" ELSE @]]

NoCommand(p) ==
    /\ CanStart(p, <<Script>>)
    /\ inv' = Started(p, <<Script>>)
    /\ UNCHANGED <<file, lastWriter, prevDone>>

UnknownCommand(p) ==
    /\ CanStart(p, <<Script, "frobnicate">>)
    /\ inv' = Started(p, <<Script, "frobnicate">>)
    /\ UNCHANGED <<file, lastWriter, prevDone>>

Help(p) ==
    /\ CanStart(p, <<Script, "help">>)
    /\ inv' = Started(p, <<Script, "help">>)
    /\ UNCHANGED <<file, lastWriter, prevDone>>

List(p, words) ==
    \E w \in words :
        /\ CanStart(p, <<Script, w>>)
        /\ inv' = Started(p, <<Script, w>>)
        /\ UNCHANGED <<file, lastWriter, prevDone>>

Add(p, words, argss) ==
    \E w \in words, args \in argss :
        /\ CanStart(p, <<Script, w>> \o args)
        /\ inv' = Started(p, <<Script, w>> \o args)
        /\ UNCHANGED <<file, lastWriter, prevDone>>

Complete(p, argss) ==
    \E args \in argss :
        /\ CanStart(p, <<Script, "complete">> \o args)
        /\ inv' = Started(p, <<Script, "complete">> \o args)
        /\ UNCHANGED <<file, lastWriter, prevDone>>

Remove(p, argss) ==
    \E args \in argss :
        /\ CanStart(p, <<Script, "remove">> \o args)
        /\ inv' = Started(p, <<Script, "remove">> \o args)
        /\ UNCHANGED <<file, lastWriter, prevDone>>

\* Process p calls save_tasks, prints its confirmation and ends.
Save(p) ==
    \E outcome \in WriteOutcomes :
        /\ inv[p].pc = "loaded"
        /\ file' = SaveTasks(file, inv[p].tasks, outcome)
        /\ inv' = [inv EXCEPT ![p] = Confirm(inv[p], outcome)]
        /\ lastWriter' = IF outcome = "denied" THEN lastWriter ELSE p
        /\ UNCHANGED prevDone

\* The processes that ended are gone; the next command lines can be given.
\* prevDone keeps the task number when the one invocation that ran marked a
\* task complete.
Reap ==
    /\ \A p \in Procs : inv[p].pc # "loaded"
    /\ \E p \in Procs : inv[p].pc = "done"
    /\ prevDone' =
         IF \E p \in Procs :
                /\ inv[p].action = "complete" /\ inv[p].wrote = "ok"
                /\ inv[Other(p)].pc = "idle"
         THEN LET p == CHOOSE p \in Procs : inv[p].wrote = "ok" IN inv[p].index
         ELSE 0
    /\ inv' = [p \in Procs |-> NoInv]
    /\ lastWriter' = 0
    /\ UNCHANGED file

InitCommon ==
    /\ inv = [p \in Procs |-> NoInv]
    /\ lastWriter = 0
    /\ prevDone = 0

\* One invocation at a time, from any file.
Init == file \in InitFiles /\ InitCommon

Next ==
    \/ NoCommand(1)
    \/ UnknownCommand(1)
    \/ Help(1)
    \/ List(1, {"list", "List"})
    \/ Add(1, {"add", "ADD"}, AddArgs)
    \/ Complete(1, IndexArgs)
    \/ Remove(1, IndexArgs)
    \/ Save(1)
    \/ Reap

Spec == Init /\ [][Next]_vars

\* One invocation at a time, from an absent file.
InitEmpty == file = AbsentFile /\ InitCommon

SpecEmpty == InitEmpty /\ [][Next]_vars

\* Two terminals: the processes' loads and saves interleave.
NextConc ==
    \/ \E p \in Procs : List(p, {"list"})
    \/ \E p \in Procs : Add(p, {"add"}, ConcAddArgs)
    \/ \E p \in Procs : Complete(p, ConcIndexArgs)
    \/ \E p \in Procs : Remove(p, ConcIndexArgs)
    \/ \E p \in Procs : Save(p)
    \/ Reap

SpecConc == InitEmpty /\ [][NextConc]_vars

\* ----------------------------------------------------------------- claims
\* A description that is empty or only whitespace.
IsBlank(s) == Strip(s) = <<>>

\* What a list invocation prints for position i of the stored list.
Listed(items, i) == ListTasks(NoInv, File("array", items)).out[i + 1]

IsTask(t) == t.type = "object" /\ t.keys = {"description", "status"}

\* The invocation was given a task number that parses and lies in 1..length
\* of the list it loaded.
ValidIndex(r) ==
    /\ Len(r.argv) >= 3
    /\ r.read /\ r.raised # "UnicodeDecodeError"
    /\ ParseInt(r.argv[3]).ok
    /\ ParseInt(r.argv[3]).val \in 1..Len(r.loaded)

\* C1: a remove of a task number i in 1..n, on a stored list of length n,
\* calls save_tasks, and when the write goes through the file holds a list of
\* length n - 1 in which the tasks before i keep their positions and the
\* tasks after i have moved down by one; the confirmation names position i
\* and the description of the task that was there.
C1_RemoveShifts ==
    \A p \in Procs :
        LET r == inv[p]
            i == ParseInt(r.argv[3]).val
            n == Len(r.loaded)
        IN  (r.pc = "done" /\ r.action = "remove" /\ ValidIndex(r)) =>
                /\ r.wrote # "none"
                /\ r.wrote = "ok" =>
                     /\ file.kind = "array"
                     /\ Len(file.items) = n - 1
                     /\ \A j \in 1..(i - 1) : file.items[j] = r.loaded[j]
                     /\ \A j \in (i + 1)..n : file.items[j - 1] = r.loaded[j]
                     /\ (r.loaded[i].type = "object" /\ "description" \in r.loaded[i].keys)
                          => r.out = <<Line("removed", i, "", r.loaded[i].description)>>

\* A removal from the middle of a three-task list has been written.
C1_Witness ==
    \E p \in Procs :
        /\ inv[p].pc = "done" /\ inv[p].action = "remove" /\ inv[p].wrote = "ok"
        /\ inv[p].index = 2 /\ Len(inv[p].loaded) = 3
        /\ inv[p].loaded[1] # inv[p].loaded[3]
        /\ Len(file.items) = 2

\* C2: a complete of a task number i whose task is pending calls save_tasks,
\* and when the write goes through the file holds the same list except that
\* task i has status complete, which a list shows as [x] at position i; a
\* complete of a task that is already complete (the same complete given
\* again) says so, writes nothing and leaves the file as it was.
C2_CompleteIdempotent ==
    \A p \in Procs :
        LET r == inv[p]
            i == ParseInt(r.argv[3]).val
        IN  (r.pc = "done" /\ r.action = "complete" /\ ValidIndex(r)) =>
                /\ (IsTask(r.loaded[i]) /\ r.loaded[i].status = "pending") =>
                     /\ r.wrote # "none"
                     /\ r.wrote = "ok" =>
                          /\ file.kind = "array"
                          /\ Len(file.items) = Len(r.loaded)
                          /\ \A j \in 1..Len(r.loaded) :
                               j # i => file.items[j] = r.loaded[j]
                          /\ file.items[i] =
                               Task(r.loaded[i].description, "complete")
                          /\ (\A j \in 1..i : file.items[j].type = "object")
                               => Listed(file.items, i) =
                                    Line("list_item", i, "[x]", r.loaded[i].description)
                          /\ r.out = <<Line("marked_complete", i, "", r.loaded[i].description)>>
                /\ ((IsTask(r.loaded[i]) /\ r.loaded[i].status = "complete")
                        \/ prevDone = i) =>
                     /\ r.out = <<Line("already_complete", i, "", <<>>)>>
                     /\ r.wrote = "none"
                     /\ file = r.before
                     /\ r.exit = 0

\* The invocation before marked task 2 complete and this one was given
\* complete 2 again.
C2_Witness ==
    /\ prevDone = 2
    /\ inv[1].pc = "done" /\ inv[1].action = "complete" /\ inv[1].index = 2
    /\ inv[1].out = <<Line("already_complete", 2, "", <<>>)>>

\* C3: an add of a description that is not blank, on a stored list of length
\* n, calls save_tasks, and when the write goes through the file holds a list
\* of length n + 1 whose first n tasks are those loaded and whose last task
\* has that description and status pending; a list shows it at position
\* n + 1 with the marker [ ].
C3_AddAppends ==
    \A p \in Procs :
        LET r == inv[p]
            d == Join(SubSeq(r.argv, 3, Len(r.argv)))
            n == Len(r.loaded)
        IN  (r.pc = "done" /\ r.action = "add" /\ Len(r.argv) >= 3 /\ ~IsBlank(d)
               /\ r.raised # "UnicodeDecodeError") =>
                /\ r.wrote # "none"
                /\ r.wrote = "ok" =>
                     /\ file.kind = "array"
                     /\ Len(file.items) = n + 1
                     /\ \A j \in 1..n : file.items[j] = r.loaded[j]
                     /\ file.items[n + 1] = Task(d, "pending")
                     /\ (\A j \in 1..n : file.items[j].type = "object")
                          => Listed(file.items, n + 1) = Line("list_item", n + 1, "[ ]", d)
                     /\ r.out = <<Line("task_added", 0, "", d)>>

\* "a b" has been added as the third task.
C3_Witness ==
    \E p \in Procs :
        /\ inv[p].pc = "done" /\ inv[p].action = "add" /\ inv[p].wrote = "ok"
        /\ inv[p].desc = <<"a", " ", "b">>
        /\ Len(inv[p].loaded) = 2 /\ Len(file.items) = 3

\* C4: an add of a description that is empty or only whitespace prints the
\* empty-task error, neither reads nor writes the file and appends nothing.
C4_BlankRejected ==
    \A p \in Procs :
        LET r == inv[p] IN
        (r.pc # "idle" /\ r.action = "add" /\ Len(r.argv) >= 3
           /\ IsBlank(Join(SubSeq(r.argv, 3, Len(r.argv))))) =>
            /\ r.pc = "done"
            /\ r.out = <<Say("empty_task")>>
            /\ ~r.read
            /\ r.wrote = "none"
            /\ file = r.before

\* C5: complete and remove given a task number that is no integer print the
\* invalid-number error without reading the file; given an integer outside
\* 1..length of the loaded list they print "not found" and the valid range 1
\* to length, or "no tasks" when the list is empty; in both cases nothing is
\* written and the file is as it was.
C5_BadIndexNoWrite ==
    \A p \in Procs :
        LET r == inv[p]
            n == ParseInt(r.argv[3])
        IN  (r.pc = "done" /\ r.action \in {"complete", "remove"} /\ Len(r.argv) >= 3) =>
                /\ ~n.ok =>
                     /\ r.out = <<Line("invalid_number", 0, "", r.argv[3])>>
                     /\ ~r.read
                     /\ r.wrote = "none"
                     /\ file = r.before
                /\ (n.ok /\ r.raised # "UnicodeDecodeError"
                      /\ n.val \notin 1..Len(LoadTasks(r.before))) =>
                     /\ r.wrote = "none"
                     /\ file = r.before
                     /\ r.out[1] = Line("not_found", n.val, "", <<>>)
                     /\ Len(r.out) = 2
                     /\ r.out[2] = IF LoadTasks(r.before) = <<>>
                                   THEN Say("you_have_no_tasks")
                                   ELSE Line("valid_range", Len(LoadTasks(r.before)), "", <<>>)

\* A remove of a task number beyond the end of a two-task list has been
\* refused.
C5_Witness ==
    \E p \in Procs :
        /\ inv[p].pc = "done" /\ inv[p].action = "remove"
        /\ Len(inv[p].loaded) = 2 /\ inv[p].index = MaxLen + 1
        /\ inv[p].out[2] = Line("valid_range", 2, "", <<>>)

\* C6: whatever the command line, and whatever the file holds among the
\* contents load_tasks accepts, the exit status is not 0 exactly when no
\* command was given or the command word is not recognised.
C6_ExitStatus ==
    \A p \in Procs :
        LET r == inv[p] IN
        (r.pc = "done" /\ r.before.kind # "undecodable") =>
            (r.exit # 0 <=>
                (Len(r.argv) < 2
                   \/ Lower(r.argv[2]) \notin {"list", "add", "complete", "remove", "help"}))

\* C7: load_tasks returns the empty list and does not raise when the file is
\* absent, cannot be parsed as JSON, or holds a JSON value that is no array;
\* a mutating invocation that then writes replaces the content by a list
\* built from the empty list.
C7_LoadTolerant ==
    \A p \in Procs :
        LET r == inv[p] IN
        (r.pc = "done" /\ r.read /\ r.before.kind # "array") =>
            /\ r.raised = "none"
            /\ r.loaded = <<>>
            /\ (r.wrote = "ok" /\ r.action = "add") =>
                 file = File("array", <<Task(r.desc, "pending")>>)

\* C10: when add, complete or remove has printed its confirmation, the
\* write went through and no write failure was reported.
C10_ConfirmedMeansSaved ==
    \A p \in Procs :
        LET r == inv[p] IN
        (r.pc = "done"
           /\ \E k \in 1..Len(r.out) :
                r.out[k].msg \in {"task_added", "marked_complete", "removed"}) =>
            /\ r.wrote = "ok"
            /\ \A k \in 1..Len(r.out) : r.out[k].msg # "save_error"
            /\ file = File("array", r.tasks)

\* Every stored task is an object with a description and a status that is
\* pending or complete.
C8_WellFormed ==
    file.kind = "array" =>
        \A j \in 1..Len(file.items) :
            /\ IsTask(file.items[j])
            /\ file.items[j].status \in {"pending", "complete"}
            /\ file.items[j].description # <<>>

\* A step keeps every task that stays in the list: the task at position j
\* is afterwards at position j, or at j - 1 when the step is the save of a
\* remove of an earlier position; its description is the same and, if it was
\* complete, it still is.
C8_StepKeepsTasks ==
    LET old == LoadTasks(file)
        new == LoadTasks(file')
        removed == IF \E p \in Procs : inv[p].pc = "loaded" /\ inv[p].action = "remove"
                                         /\ inv'[p].wrote = "ok"
                   THEN LET p == CHOOSE p \in Procs :
                                    inv[p].pc = "loaded" /\ inv[p].action = "remove"
                                      /\ inv'[p].wrote = "ok"
                        IN inv[p].index
                   ELSE 0
        to(j) == IF removed # 0 /\ j > removed THEN j - 1 ELSE j
    IN  \A j \in 1..Len(old) :
            (j # removed /\ to(j) <= Len(new)) =>
                /\ new[to(j)].description = old[j].description
                /\ old[j].status = "complete" => new[to(j)].status = "complete"

\* C8: over any sequence of invocations that starts with no file, every
\* stored task has a non-empty description and status pending or complete,
\* a task's description never changes while it is in the list, and a task
\* that is complete never becomes pending again.
C8_TaskLifecycle == []C8_WellFormed /\ [][C8_StepKeepsTasks]_vars

\* A complete task has moved down after the removal of the task before it.
C8_Witness ==
    /\ inv[1].pc = "done" /\ inv[1].action = "remove" /\ inv[1].wrote = "ok"
    /\ inv[1].index = 1 /\ Len(inv[1].loaded) = 3
    /\ inv[1].loaded[2].status = "complete"
    /\ inv[1].loaded[1].status = "pending"
    /\ file.items[1].status = "complete"

\* What an invocation's command does to a list xs.
C9_Effect(r, xs) ==
    CASE r.action = "add" -> xs \o <<Task(r.desc, "pending")>>
      [] r.action = "complete" ->
            [j \in 1..Len(xs) |->
                IF j = r.index THEN Task(xs[j].description, "complete") ELSE xs[j]]
      [] r.action = "remove" ->
            [j \in 1..(Len(xs) - 1) |-> IF j < r.index THEN xs[j] ELSE xs[j + 1]]

\* C9: when two invocations that write have both ended, then if each loaded
\* the list before the other saved, the file holds what the one that saved
\* last made of the list both loaded, without the other's change; and if
\* one loaded what the other had saved, the file holds both changes.
C9_LastWriterWins ==
    \A p \in Procs :
        LET q == Other(p) IN
        (inv[p].pc = "done" /\ inv[q].pc = "done"
           /\ inv[p].wrote = "ok" /\ inv[q].wrote = "ok" /\ lastWriter = p) =>
            /\ (inv[p].rel = "raced" /\ inv[q].rel = "raced") =>
                 /\ inv[p].loaded = inv[q].loaded
                 /\ file = File("array", C9_Effect(inv[p], inv[q].loaded))
            /\ inv[p].rel = "after" =>
                 file = File("array", C9_Effect(inv[p], C9_Effect(inv[q], inv[q].loaded)))

\* Two adds raced: both loaded the same one-task list, both saved, and the
\* file holds two tasks, not three.
C9_Witness ==
    /\ inv[1].pc = "done" /\ inv[2].pc = "done"
    /\ inv[1].wrote = "ok" /\ inv[2].wrote = "ok"
    /\ inv[1].rel = "raced" /\ inv[2].rel = "raced"
    /\ inv[1].action = "add" /\ inv[2].action = "add"
    /\ inv[1].desc # inv[2].desc
    /\ Len(inv[1].loaded) = 1
    /\ lastWriter = 2
    /\ Len(file.items) = 2

====
